---- MODULE Spec2Model ----
(***************************************************************************)
(* Verification model of chemeleon2:                                       *)
(*   - the reward aggregator   (src/rl_module/reward.py)                   *)
(*   - the checkpoint resolver (src/utils/checkpoint_downloader.py)        *)
(*   - the empty-batch fixture (tests/conftest.py, src/data/schema.py)     *)
(*   - the evaluation script   (src/evaluate.py)                           *)
(*   - the MP dataset          (src/data/components/mp_dataset.py)         *)
(*   - the MACE feature writer (src/utils/mace_embedd.py)                  *)
(*   - the EMA callback        (src/utils/ema_callback.py)                 *)
(* Each component has its own specification; the variables of the other    *)
(* components stay at their initial values under it.                       *)
(***************************************************************************)
EXTENDS Integers, Sequences, FiniteSets, TLC

VARIABLES
    \* ---- ReinforceReward object (reward.py:13-39)
    components,      \* self.components: sequence of component descriptors
    normalize_fn,    \* self.normalize_fn
    metrics,         \* self.metrics: a Metrics object or None
    \* ---- one ReinforceReward.forward call (reward.py:41-67)
    rwPc,            \* "idle" | "components"
    rwB,             \* len(batch_gen)
    total_rewards,   \* the accumulator of forward
    compOuts,        \* what each component returned in this call, in call order
    fwd,             \* outcome of the last forward call
    nrm,             \* outcome of normalize applied to the last forward output
    callLog,         \* the component calls of this forward call, in order: which
                     \* component, and the metrics_obj it was handed
    \* ---- checkpoint resolver: the environment (checkpoint_downloader.py:10-18)
    config,          \* config["config"]: the configured retry_attempts, if any
    cache,           \* the on-disk cache: content of each checkpoint file, or Absent
    \* ---- one get_checkpoint call (checkpoint_downloader.py:30-77)
    ckPc,            \* "idle" | "loop" | "try" | "except" | "returned" | "raised"
    ckName,          \* the argument name
    attempt,         \* the loop variable
    last_error,      \* the local last_error
    ckResult,        \* the returned path, or NoPath
    ckError,         \* the exception that left the call, with its __cause__
    fetchCalls,      \* calls of hf_hub_download in this call
    downloads,       \* of these, the ones that transferred the file
    sleeps,          \* calls of time.sleep in this call
    lastAttemptOk,   \* the last attempt fetched a file whose digest matched
    entryContent,    \* content of the cached file when the call began
    resolved,        \* names an earlier call returned a path for, with that path
    \* ---- the dummy_crystal_batch fixture (tests/conftest.py:37-68)
    batchSizeArg,    \* the fixture's batch_size argument
    numAtomsArg,     \* the num_atoms list handed to create_empty_batch
    batch,           \* the CrystalBatch it returned, or NoBatch
    \* ---- one run of the evaluation script (evaluate.py:21-65)
    evPc,            \* "idle" | "loaded" | "computed" | "done" | "raised"
    evSource,        \* how structure_path was read: "json" | "dir" | "none"
    evInput,         \* what structure_path holds, in the order it is read
    gen_structures,  \* the local gen_structures
    evRecord,        \* the record m.compute left in the Metrics object
    evCsv,           \* the rows m.to_csv wrote
    \* ---- an MPDataset object (mp_dataset.py:26-67)
    df,              \* self.df: the rows of the split table
    dfColumns,       \* its columns besides material_id and cif
    target_condition,    \* self.target_condition
    mace_features,   \* self.mace_features
    mace_features_dict,  \* self.mace_features_dict
    pre_transform,   \* self.pre_transform: "None" or a callable
    processed,       \* the graphs of the processed file, self.data
    \* ---- one MPDataset.process call (mp_dataset.py:89-123)
    dsPc,            \* "idle" | "process" | "rows" | "saved" | "raised" | "ready"
    rowIdx,          \* rows the loop has taken
    data_list,       \* the local data_list
    \* ---- the last MPDataset.get call (mp_dataset.py:125-157)
    getIdx,          \* its argument
    getResult,       \* the sample it returned or the error it raised
    \* ---- one evaluate call of the feature writer (mace_embedd.py:81-144)
    macePc,          \* "idle" | "start" | "split" | "rows" | "returned" | "raised"
    maceSplits,      \* the splits argument
    splitIdx,        \* splits the loop has finished
    idDtype,         \* dtype of the material_id column of the table being read
    h5_file,         \* the output file: key -> descriptor
    seen,            \* the rows whose descriptor was computed, in order
    maceError,       \* the exception that left the call
    \* ---- the EMA callback and the module it follows (ema_callback.py:7-33)
    ema,             \* self.ema
    params,          \* pl_module.parameters()
    ckpt,            \* the last checkpoint saved: ema_state and module weights
    emaPc,           \* "idle" | "new" | "fit" | "validating" | "resumed" | "loaded"
    emaSteps,        \* training batches so far
    preVal           \* parameters and shadow when on_validation_start was called

rewardVars == <<components, normalize_fn, metrics, rwPc, rwB, total_rewards,
                compOuts, fwd, nrm, callLog>>

ckVars == <<config, cache, ckPc, ckName, attempt, last_error, ckResult, ckError,
            fetchCalls, downloads, sleeps, lastAttemptOk, entryContent, resolved>>

batchVars == <<batchSizeArg, numAtomsArg, batch>>

evVars == <<evPc, evSource, evInput, gen_structures, evRecord, evCsv>>

dsVars == <<df, dfColumns, target_condition, mace_features, mace_features_dict,
            pre_transform, processed, dsPc, rowIdx, data_list, getIdx, getResult>>

maceVars == <<macePc, maceSplits, splitIdx, idDtype, h5_file, seen, maceError>>

emaVars == <<ema, params, ckpt, emaPc, emaSteps, preVal>>

vars == <<rewardVars, ckVars, batchVars, evVars, dsVars, maceVars, emaVars>>

(***************************************************************************)
(* Bounds of the model.                                                    *)
(***************************************************************************)
MaxBatch      == 2    \* largest len(batch_gen)
MaxComponents == 2    \* largest number of reward components
MaxCells      == 4    \* largest len(batch_gen) * number of components

(***************************************************************************)
(* float32 values: a finite rational n/d, an infinity (n = 1 or -1) or NaN. *)
(***************************************************************************)
Fin(n)  == [k |-> "fin", n |-> n, d |-> 1]
Rat(n, d) == [k |-> "fin", n |-> n, d |-> d]
NaN     == [k |-> "nan", n |-> 0, d |-> 1]
PosInf  == [k |-> "inf", n |-> 1, d |-> 1]
NegInf  == [k |-> "inf", n |-> -1, d |-> 1]
Opaque  == [k |-> "ext", n |-> 0, d |-> 1]

\* the values a component may put in one slot of its reward tensor
RewardVals == {Fin(-2), Fin(1), Fin(2), NaN, PosInf, NegInf}

IsNaN(x) == x.k = "nan"

\* IEEE addition, as torch's += computes it elementwise
FAdd(a, b) ==
    IF a.k = "ext" \/ b.k = "ext" THEN Opaque
    ELSE IF IsNaN(a) \/ IsNaN(b) THEN NaN
    ELSE IF a.k = "inf" /\ b.k = "inf" THEN (IF a.n = b.n THEN a ELSE NaN)
    ELSE IF a.k = "inf" THEN a
    ELSE IF b.k = "inf" THEN b
    ELSE Rat(a.n * b.d + b.n * a.d, a.d * b.d)

FNeg(a) == IF a.k = "fin" \/ a.k = "inf" THEN [a EXCEPT !.n = -a.n] ELSE a

FSub(a, b) == FAdd(a, FNeg(b))

\* x / m for a positive integer m
FDivInt(a, m) == IF a.k = "fin" THEN Rat(a.n, a.d * m) ELSE a

Vectors(B) == [1..B -> RewardVals]

\* torch.zeros(len(batch_gen))
Zeros(B) == [i \in 1..B |-> Fin(0)]

\* total_rewards += comp_rewards
AccumulateBroken(total, comp) == comp
Accumulate(total, comp) == [i \in DOMAIN total |-> FAdd(total[i], comp[i])]

\* torch.isnan(total_rewards).any()
AnyNaNBroken(v) == v # <<>> /\ IsNaN(v[1])
AnyNaN(v) == \E i \in DOMAIN v : IsNaN(v[i])

RECURSIVE VSumUpTo(_, _)
VSumUpTo(v, i) == IF i = 0 THEN Fin(0) ELSE FAdd(VSumUpTo(v, i - 1), v[i])

\* rewards.mean(): NaN for an empty tensor
VMean(v) == IF Len(v) = 0 THEN NaN ELSE FDivInt(VSumUpTo(v, Len(v)), Len(v))

\* torch.clamp(x, min=-1.0, max=1.0) on one element
ClampBroken(x) ==
    IF x.k = "fin" THEN (IF x.n > x.d THEN Fin(1) ELSE x)
    ELSE IF x.k = "inf" THEN (IF x.n = 1 THEN Fin(1) ELSE x)
    ELSE x
Clamp(x) ==
    IF x.k = "fin" THEN (IF x.n < -x.d THEN Fin(-1)
                         ELSE IF x.n > x.d THEN Fin(1) ELSE x)
    ELSE IF x.k = "inf" THEN (IF x.n = 1 THEN Fin(1) ELSE Fin(-1))
    ELSE x

\* src.rl_module.components.normalize / standardize: same-length tensor whose
\* values the model leaves uninterpreted
ExtNormalize(v)   == [i \in DOMAIN v |-> Opaque]
ExtStandardize(v) == [i \in DOMAIN v |-> Opaque]

NormalizeNames == {"norm", "std", "subtract_mean", "clip", "None"}
\* the values normalize_fn is constructed with: the recognized ones and an
\* unrecognized one
NormalizeArgs  == NormalizeNames \cup {"zscore"}

Returned(v) == [status |-> "returned", value |-> v, error |-> "none"]
Raised(e)   == [status |-> "raised", value |-> <<>>, error |-> e]
NoOutcome   == [status |-> "none", value |-> <<>>, error |-> "none"]

\* ReinforceReward.normalize
Normalize(fn, rewards) ==
    IF fn = "norm" THEN Returned(ExtNormalize(rewards))
    ELSE IF fn = "std" THEN Returned(ExtStandardize(rewards))
    ELSE IF fn = "subtract_mean"
        THEN Returned([i \in DOMAIN rewards |-> FSub(rewards[i], VMean(rewards))])
    ELSE IF fn = "clip" THEN Returned([i \in DOMAIN rewards |-> Clamp(rewards[i])])
    ELSE IF fn = "None" THEN Returned(rewards)
    ELSE Raised("ValueError")

(***************************************************************************)
(* ReinforceReward.__init__                                                *)
(***************************************************************************)
\* a component descriptor: its declared required_metrics
ComponentSpecs == [required_metrics : {{}, {"e_above_hull"}}]

AllMetrics(comps) == UNION {comps[i].required_metrics : i \in DOMAIN comps}

None == [kind |-> "None", metrics |-> {}, computes |-> 0]
MetricsObj(ms) == [kind |-> "Metrics", metrics |-> ms, computes |-> 0]

\* a normalize_fn that __init__ accepts: it stores the argument unchecked
InitAccepts(fn) == TRUE

RewardConstructed ==
    /\ \E n \in 0..MaxComponents : components \in [1..n -> ComponentSpecs]
    /\ normalize_fn \in {fn \in NormalizeArgs : InitAccepts(fn)}
    /\ metrics = IF AllMetrics(components) # {}
                 THEN MetricsObj(AllMetrics(components)) ELSE None
    /\ rwPc = "idle"
    /\ rwB = 0
    /\ total_rewards = <<>>
    /\ compOuts = <<>>
    /\ fwd = NoOutcome
    /\ nrm = NoOutcome
    /\ callLog = <<>>

(***************************************************************************)
(* ReinforceReward.forward, one step per statement group                   *)
(***************************************************************************)
\* lines 47-50: self.metrics.compute(gen_structures) when a Metrics object
\* exists; computes counts the compute calls of the running forward call
MetricsAfterBeginBroken(m) == m
MetricsAfterBegin(m) ==
    IF m.kind # "None" THEN [m EXCEPT !.computes = m.computes + 1] ELSE m

\* for component in self.components: the component called after `done` calls
NextComponent(done, n) == done + 1

\* lines 45-54: decode, compute the shared metrics, zero the accumulator
ForwardBegin(B) ==
    /\ rwPc = "idle"
    /\ B * Len(components) <= MaxCells
    /\ rwPc' = "components"
    /\ rwB' = B
    /\ metrics' = MetricsAfterBegin([metrics EXCEPT !.computes = 0])
    /\ total_rewards' = Zeros(B)
    /\ compOuts' = <<>>
    /\ callLog' = <<>>
    /\ fwd' = NoOutcome
    /\ nrm' = NoOutcome
    /\ UNCHANGED <<components, normalize_fn>>

\* lines 55-62: the next component of the list is called and added
ForwardComponent(out) ==
    /\ rwPc = "components"
    /\ Len(compOuts) < Len(components)
    /\ total_rewards' = Accumulate(total_rewards, out)
    /\ compOuts' = Append(compOuts, out)
    /\ callLog' = Append(callLog,
            [component |-> NextComponent(Len(compOuts), Len(components)),
             metrics_obj |-> metrics])
    /\ UNCHANGED <<components, normalize_fn, metrics, rwPc, rwB, fwd, nrm>>

\* lines 64-67: the NaN guard and the return
ForwardEnd ==
    /\ rwPc = "components"
    /\ Len(compOuts) = Len(components)
    /\ fwd' = IF AnyNaN(total_rewards) THEN Raised("ValueError")
              ELSE Returned(total_rewards)
    /\ rwPc' = "idle"
    /\ UNCHANGED <<components, normalize_fn, metrics, rwB, total_rewards,
                   compOuts, nrm, callLog>>

\* the caller passes the tensor forward returned to ReinforceReward.normalize
NormalizeCall ==
    /\ rwPc = "idle"
    /\ fwd.status = "returned"
    /\ nrm.status = "none"
    /\ nrm' = Normalize(normalize_fn, fwd.value)
    /\ UNCHANGED <<components, normalize_fn, metrics, rwPc, rwB, total_rewards,
                   compOuts, fwd, callLog>>

(***************************************************************************)
(* Checkpoint resolver: manifest, cache and hf_hub_download                *)
(***************************************************************************)
MaxRetryConfigured   == 3    \* largest retry_attempts the config file sets
NumContents          == 3    \* distinct file contents a cache entry can hold
DefaultRetryAttempts == 3    \* config["config"].get("retry_attempts", 3)

Absent   == 0
Contents == 1..NumContents

\* calculate_sha256: the digest of a file's content (no collisions among Contents)
Sha256(content) == <<"sha256", content>>

\* config["checkpoints"]: per name the remote path and the expected digest
Manifest == [mp_20_vae |-> [hf_path |-> "checkpoints/mp_20_vae.ckpt", sha256 |-> Sha256(1)],
             mp_20_ldm |-> [hf_path |-> "checkpoints/mp_20_ldm.ckpt", sha256 |-> Sha256(2)]]

CkptNames == DOMAIN Manifest
\* the arguments get_checkpoint is called with: manifest names and another one
CallNames == CkptNames \cup {"not_in_manifest"}

NoPath == "none"
\* the path hf_hub_download returns for a file: inside cache_dir, by its filename
CachePath(hf_path) == "cache_dir/" \o hf_path

NoError == [kind |-> "None", attempt |-> -1]
ErrorAt(kind, i) == [kind |-> kind, attempt |-> i]

\* hf_hub_download(repo_id, filename, cache_dir), called without force_download:
\* a file already in the cache is returned as it is, nothing is transferred;
\* otherwise the call raises, or transfers the file (with whatever content
\* arrives) into the cache. The set of possible outcomes. The remote
\* repository keeps its revision while the model runs, and nothing but
\* hf_hub_download writes the cache.
HfHubDownloadForced(cached) ==
    {[ok |-> FALSE, content |-> cached, downloaded |-> FALSE]}
        \cup {[ok |-> TRUE, content |-> c, downloaded |-> TRUE] : c \in Contents}
HfHubDownload(cached) ==
    IF cached # Absent
    THEN {[ok |-> TRUE, content |-> cached, downloaded |-> FALSE]}
    ELSE {[ok |-> FALSE, content |-> cached, downloaded |-> FALSE]}
            \cup {[ok |-> TRUE, content |-> c, downloaded |-> TRUE] : c \in Contents}

\* retry_attempts = config["config"].get("retry_attempts", 3)
RetryAttempts == IF config.has_retry_attempts THEN config.retry_attempts
                 ELSE DefaultRetryAttempts

\* the test of line 60 that lets the path through: actual == expected
ChecksumOKBroken(actual, expected) == TRUE
ChecksumOK(actual, expected) == actual = expected

\* except clause, line 66: last_error = e
RecordErrorBroken(old, e) == IF old = NoError THEN e ELSE old
RecordError(old, e) == e

\* where control goes after the try body: return, or the except clause
AfterTryBroken(ok) == "except"
AfterTry(ok) == IF ok THEN "returned" ELSE "except"

\* the loop condition of range(retry_attempts)
LoopContinuesBroken(i, n) == i <= n
LoopContinues(i, n) == i < n

CkDone == ckPc \in {"returned", "raised"}

CkConstructed ==
    /\ config \in {[has_retry_attempts |-> FALSE, retry_attempts |-> 0]}
            \cup {[has_retry_attempts |-> TRUE, retry_attempts |-> r] :
                    r \in 0..MaxRetryConfigured}
    /\ cache \in [CkptNames -> Contents \cup {Absent}]
    /\ ckPc = "idle"
    /\ ckName = "none"
    /\ attempt = 0
    /\ last_error = NoError
    /\ ckResult = NoPath
    /\ ckError = [kind |-> "None", cause |-> NoError]
    /\ fetchCalls = 0
    /\ downloads = 0
    /\ sleeps = 0
    /\ lastAttemptOk = FALSE
    /\ entryContent = Absent
    /\ resolved = {}

\* lines 39-48: load the config, look the name up, last_error = None
GetCheckpointBegin(name) ==
    /\ ckPc \in {"idle", "returned", "raised"}
    /\ ckName' = name
    /\ resolved' = IF ckPc = "returned"
                   THEN resolved \cup {<<ckName, ckResult>>} ELSE resolved
    /\ attempt' = 0
    /\ last_error' = NoError
    /\ ckResult' = NoPath
    /\ fetchCalls' = 0
    /\ downloads' = 0
    /\ sleeps' = 0
    /\ lastAttemptOk' = FALSE
    /\ IF name \in CkptNames
       THEN /\ ckPc' = "loop"
            /\ ckError' = [kind |-> "None", cause |-> NoError]
            /\ entryContent' = cache[name]
       ELSE \* config["checkpoints"][name] raises KeyError, outside the try
            /\ ckPc' = "raised"
            /\ ckError' = [kind |-> "KeyError", cause |-> NoError]
            /\ entryContent' = Absent
    /\ UNCHANGED <<config, cache>>

\* line 49 and lines 74-77: the next iteration, or the final RuntimeError
GetCheckpointLoop ==
    /\ ckPc = "loop"
    /\ lastAttemptOk' = FALSE
    /\ IF LoopContinues(attempt, RetryAttempts)
       THEN /\ ckPc' = "try"
            /\ UNCHANGED ckError
       ELSE /\ ckPc' = "raised"
            /\ ckError' = [kind |-> "RuntimeError", cause |-> last_error]
    /\ UNCHANGED <<config, cache, ckName, attempt, last_error, ckResult,
                   fetchCalls, downloads, sleeps, entryContent, resolved>>

\* lines 50-66: the try body (fetch, digest, comparison, return) and, when it
\* raised, the except clause's last_error = e
TryBody(outcome) ==
    /\ fetchCalls' = fetchCalls + 1
    /\ downloads' = downloads + (IF outcome.downloaded THEN 1 ELSE 0)
    /\ cache' = [cache EXCEPT ![ckName] = outcome.content]
    /\ LET matches == outcome.ok /\ ChecksumOK(Sha256(outcome.content),
                                               Manifest[ckName].sha256)
       IN  /\ lastAttemptOk' = matches
           /\ ckPc' = AfterTry(matches)
           /\ ckResult' = IF AfterTry(matches) = "returned"
                          THEN CachePath(Manifest[ckName].hf_path) ELSE NoPath
           /\ last_error' =
                IF AfterTry(matches) = "returned" THEN last_error
                ELSE IF ~outcome.ok
                     THEN RecordError(last_error, ErrorAt("FetchError", attempt))
                     ELSE RecordError(last_error, ErrorAt("ValueError", attempt))

\* one iteration of the loop body, for each outcome hf_hub_download can have
GetCheckpointAttempt ==
    /\ ckPc = "try"
    /\ \E outcome \in HfHubDownload(cache[ckName]) : TryBody(outcome)
    /\ UNCHANGED <<config, ckName, attempt, ckError, sleeps, entryContent, resolved>>

\* line 67: if attempt < retry_attempts - 1
DelayFollowsBroken(i, n) == TRUE
DelayFollows(i, n) == i < n - 1

\* lines 67-72: the delay before another attempt, then the loop goes on
GetCheckpointExcept ==
    /\ ckPc = "except"
    /\ sleeps' = IF DelayFollows(attempt, RetryAttempts) THEN sleeps + 1 ELSE sleeps
    /\ attempt' = attempt + 1
    /\ ckPc' = "loop"
    /\ UNCHANGED <<config, cache, ckName, last_error, ckResult, ckError,
                   fetchCalls, downloads, lastAttemptOk, entryContent, resolved>>

(***************************************************************************)
(* Empty batches: the dummy_crystal_batch fixture and create_empty_batch   *)
(***************************************************************************)
MaxBatchSize  == 4    \* largest batch_size the fixture is called with
MaxAtomCount  == 3    \* largest atom count in the sampled distribution

\* the atom counts of positive probability in NUM_ATOM_DISTRIBUTIONS[name]
AtomCountSupport == 1..MaxAtomCount

RECURSIVE RepeatValue(_, _)
\* a tensor of n copies of x
RepeatValue(x, n) == IF n = 0 THEN <<>> ELSE Append(RepeatValue(x, n - 1), x)

RECURSIVE Arange(_)
\* torch.arange(n): 0, 1, ..., n-1
Arange(n) == IF n = 0 THEN <<>> ELSE Append(Arange(n - 1), n - 1)

RECURSIVE BatchVectorBroken(_, _)
\* 1-based structure indices instead of 0-based ones
BatchVectorBroken(num_atoms, g) ==
    IF g = 0 THEN <<>>
    ELSE BatchVectorBroken(num_atoms, g - 1) \o RepeatValue(g, num_atoms[g])

RECURSIVE BatchVector(_, _)
\* the owning-structure index of every atom of the first g structures (0-based)
BatchVector(num_atoms, g) ==
    IF g = 0 THEN <<>>
    ELSE BatchVector(num_atoms, g - 1) \o RepeatValue(g - 1, num_atoms[g])

RECURSIVE TokenIdx(_, _)
\* the position of every atom inside its own structure
TokenIdx(num_atoms, g) ==
    IF g = 0 THEN <<>>
    ELSE TokenIdx(num_atoms, g - 1) \o Arange(num_atoms[g])

UnitCubicLengths == <<1, 1, 1>>
RightAngles      == <<90, 90, 90>>
IdentityLattice  == <<<<1, 0, 0>>, <<0, 1, 0>>, <<0, 0, 1>>>>
ZeroCoord        == <<0, 0, 0>>

NoBatch == [num_graphs |-> -1]

\* create_empty_batch(num_atoms): placeholder unit cubic cells, zeroed atoms,
\* index fields derived from the counts
CreateEmptyBatch(num_atoms) ==
    LET B == Len(num_atoms)
        batchField == BatchVector(num_atoms, B)
        N == Len(batchField)
    IN  [ num_graphs  |-> B,
          num_nodes   |-> N,
          num_atoms   |-> num_atoms,
          lengths     |-> RepeatValue(UnitCubicLengths, B),
          angles      |-> RepeatValue(RightAngles, B),
          lattices    |-> RepeatValue(IdentityLattice, B),
          atom_types  |-> RepeatValue(0, N),
          frac_coords |-> RepeatValue(ZeroCoord, N),
          cart_coords |-> RepeatValue(ZeroCoord, N),
          pos         |-> RepeatValue(ZeroCoord, N),
          token_idx   |-> TokenIdx(num_atoms, B),
          batch       |-> batchField ]

\* np.random.choice(list(distribution.keys()), p=..., size=batch_size).tolist():
\* the lists the draw can give
SampleNumAtomsBroken(batch_size) == [1..(batch_size - 1) -> AtomCountSupport]
SampleNumAtoms(batch_size) == [1..batch_size -> AtomCountSupport]

BatchConstructed ==
    /\ batchSizeArg = 0
    /\ numAtomsArg = <<>>
    /\ batch = NoBatch

\* dummy_crystal_batch(batch_size, num_atom_distribution): the fixture is
\* function-scoped and each test calls its factory once; the call reads nothing
\* of an earlier batch
DummyCrystalBatch(batch_size) ==
    \E num_atoms \in SampleNumAtoms(batch_size) :
        /\ batch = NoBatch
        /\ batchSizeArg' = batch_size
        /\ numAtomsArg' = num_atoms
        /\ batch' = CreateEmptyBatch(num_atoms)

(***************************************************************************)
(* The evaluation script and the metrics engine                            *)
(***************************************************************************)
MaxStructures == 6    \* most structures structure_path holds

\* three valid crystals; the matcher's tolerance relates T1 to T2 and T2 to T3
\* but not T1 to T3
StructureKinds == {"T1", "T2", "T3"}
\* a structure whose geometry holds a NaN
NaNGeometry == "nan_geometry"
\* a .cif file Structure.from_file cannot parse
Unparseable == "unparseable"

\* StructureMatcher.fit: symmetric, reflexive, not transitive
Match(a, b) ==
    \/ a = b
    \/ {a, b} = {"T1", "T2"}
    \/ {a, b} = {"T2", "T3"}

IsValidStructure(st) == st \in StructureKinds

RECURSIVE ValidOnly(_)
\* the structures the metrics are taken over: the invalid ones are left out
ValidOnly(structs) ==
    IF structs = <<>> THEN <<>>
    ELSE IF IsValidStructure(Head(structs))
         THEN <<Head(structs)>> \o ValidOnly(Tail(structs))
         ELSE ValidOnly(Tail(structs))

\* the earlier structure whose cluster the i-th one joins: the first
\* previously seen structure it matches
JoinedStructureBroken(matching) == CHOOSE j \in matching : \A k \in matching : k <= j
JoinedStructure(matching) == CHOOSE j \in matching : \A k \in matching : j <= k

RECURSIVE ClusterOf(_, _)
\* the cluster the i-th structure lands in, named by the index of the structure
\* that started it: it joins the cluster of the first previously seen structure
\* it matches, else it starts a new cluster
ClusterOf(structs, i) ==
    LET matching == {j \in 1..(i - 1) : Match(structs[j], structs[i])}
    IN  IF matching = {} THEN i
        ELSE ClusterOf(structs, JoinedStructure(matching))

\* clustering by first match, iterating the structures in input order
FirstMatchClusters(structs) == [i \in 1..Len(structs) |-> ClusterOf(structs, i)]

NoRecord == [n_structures |-> -1]

\* Metrics.compute(gen_structures): invalid structures are tallied and left out
\* of the denominators, the valid ones are clustered
MetricsCompute(structs) ==
    LET valid == ValidOnly(structs)
        clusters == FirstMatchClusters(valid)
    IN  [ n_structures  |-> Len(structs),
          invalid_count |-> Len(structs) - Len(valid),
          n_valid       |-> Len(valid),
          cluster_of    |-> clusters,
          n_unique      |-> Cardinality({clusters[i] : i \in DOMAIN clusters}) ]

\* what a JSON file of structures can hold, and what a directory of .cif files can
JsonContents == StructureKinds \cup {NaNGeometry}
DirContents  == StructureKinds \cup {NaNGeometry, Unparseable}

\* [Structure.from_file(file) for file in structures_dir.glob("*.cif")] raises
\* at the first file that does not parse
DirLoadRaises(files) == \E i \in DOMAIN files : files[i] = Unparseable

EvConstructed ==
    /\ evPc = "idle"
    /\ evSource = "none"
    /\ evInput = <<>>
    /\ gen_structures = <<>>
    /\ evRecord = NoRecord
    /\ evCsv = <<>>

\* lines 41-48: gen_structures from a JSON file
EvaluateLoadJson(contents) ==
    /\ evPc = "idle"
    /\ evSource' = "json"
    /\ evInput' = contents
    /\ gen_structures' = contents
    /\ evPc' = "loaded"
    /\ UNCHANGED <<evRecord, evCsv>>

\* lines 41-48: gen_structures from the .cif files of a directory
EvaluateLoadDir(files) ==
    /\ evPc = "idle"
    /\ evSource' = "dir"
    /\ evInput' = files
    /\ IF DirLoadRaises(files)
       THEN /\ evPc' = "raised"
            /\ gen_structures' = <<>>
       ELSE /\ evPc' = "loaded"
            /\ gen_structures' = files
    /\ UNCHANGED <<evRecord, evCsv>>

\* lines 50-61: the matcher, the Metrics object, m.compute
EvaluateCompute ==
    /\ evPc = "loaded"
    /\ evRecord' = MetricsCompute(gen_structures)
    /\ evPc' = "computed"
    /\ UNCHANGED <<evSource, evInput, gen_structures, evCsv>>

\* lines 63-65: m.to_csv(output_file)
EvaluateToCsv ==
    /\ evPc = "computed"
    /\ evCsv' = Append(evCsv, evRecord)
    /\ evPc' = "done"
    /\ UNCHANGED <<evSource, evInput, gen_structures, evRecord>>

(***************************************************************************)
(* The Materials Project dataset (src/data/components/mp_dataset.py)       *)
(***************************************************************************)
MaxRows == 2    \* most rows of the split table

\* material_id values of a table: pandas reads a column of integers as int64
\* and any other column as strings; v is the decimal or literal text
MaterialIds == {[t |-> "int", v |-> "7"], [t |-> "str", v |-> "7"],
                [t |-> "str", v |-> "mp-1"]}

\* str(material_id)
Str(id) == id.v

\* a crystal structure: the class of lattices describing the same crystal
\* (cls), which cell of the class it is given in (rep 0 is the Niggli cell)
\* and whether the lattice matrix is in the standard orientation
Structures == [cls : 1..2, rep : 0..1, orient : {"std", "other"}]
\* a cif string Structure.from_str does not parse
BadCif == [cls |-> 0, rep |-> 0, orient |-> "none"]
Cifs == Structures \cup {BadCif}

\* line 102: Structure.from_str(cif_str, fmt="cif") returns or raises
Parses(cif) == cif \in Structures

\* line 105: st.get_reduced_structure(), the Niggli-reduced cell
GetReducedStructureBroken(st) == st
GetReducedStructure(st) == [st EXCEPT !.rep = 0]

\* lines 106-111: the same cell rebuilt from its six lattice parameters
CanonicalStructure(reduced) == [reduced EXCEPT !.orient = "std"]

\* pmg_structure_to_pyg_data(canonical, material_id=material_id)
PmgStructureToPygData(st, material_id) ==
    [structure |-> st, material_id |-> material_id, pre_transformed |-> FALSE]

\* self.pre_transform(d) for a pre_transform that is not None
PreTransform(d) == [d EXCEPT !.pre_transformed = TRUE]

\* lines 98-115: the graph of one row
RowGraph(row) ==
    PmgStructureToPygData(CanonicalStructure(GetReducedStructure(row.cif)),
                          row.material_id)

\* lines 117-119
ApplyPreTransform(pre, graphs) ==
    IF pre # "None"
    THEN [i \in DOMAIN graphs |-> PreTransform(graphs[i])]
    ELSE graphs

\* the columns of the table besides material_id and cif
ColumnSets == {{}, {"band_gap"}, {"band_gap", "e_hull"}}
CellValues == 0..1

\* self.df.columns
Columns(extra) == {"material_id", "cif"} \cup extra

\* the tables whose rows hold these cifs: one dtype for the material_id column
Tables(cifs, extra) ==
    UNION {{rows \in [1..n -> [material_id : MaterialIds, cif : cifs,
                               props : [extra -> CellValues]]] :
                \A i, j \in 1..n : rows[i].material_id.t = rows[j].material_id.t} :
           n \in 0..MaxRows}

\* self.df.loc[idx, t]
RowValueBroken(rows, idx, t) ==
    IF t = "material_id" THEN rows[1].material_id
    ELSE IF t = "cif" THEN rows[1].cif
    ELSE rows[1].props[t]
RowValue(rows, idx, t) ==
    IF t = "material_id" THEN rows[idx + 1].material_id
    ELSE IF t = "cif" THEN rows[idx + 1].cif
    ELSE rows[idx + 1].props[t]

\* the target_condition argument: None, one name, a collection of names, or
\* a value that is neither a str nor iterable
NoCondition == [kind |-> "None", names |-> <<>>]
SingleCondition(t) == [kind |-> "str", names |-> <<t>>]
ManyConditions(ts) == [kind |-> "iterable", names |-> ts]
OtherCondition == [kind |-> "other", names |-> <<>>]
TargetConditions ==
    {NoCondition, OtherCondition,
     SingleCondition("band_gap"), SingleCondition("missing"),
     ManyConditions(<<>>), ManyConditions(<<"band_gap", "e_hull">>),
     ManyConditions(<<"e_hull", "missing">>)}

Range(s) == {s[i] : i \in DOMAIN s}

\* the side feature file: a descriptor under some of the keys
FeatureKeys == {Str(id) : id \in MaterialIds}
FeatureValues == 1..2
FeatureFiles == UNION {[keys -> FeatureValues] : keys \in SUBSET FeatureKeys}

\* lines 60-67: the features of the table's ids that the file holds
LoadMaceFeatures(rows, f) ==
    [id \in {rows[i].material_id : i \in {j \in DOMAIN rows :
                                    Str(rows[j].material_id) \in DOMAIN f}}
        |-> f[Str(id)]]

NoSample == [graph |-> PmgStructureToPygData(BadCif, [t |-> "none", v |-> ""]),
             has_y |-> FALSE, y |-> <<>>,
             has_target_condition |-> FALSE, target_condition |-> NoCondition,
             has_mace_features |-> FALSE, mace_features |-> 0]
NoGet == [status |-> "none", error |-> "none", sample |-> NoSample]
GetRaised(err) == [status |-> "raised", error |-> err, sample |-> NoSample]
GetReturned(s) == [status |-> "returned", error |-> "none", sample |-> s]

\* lines 137-151: the condition part of get
AttachCondition(data, tc, rows, extra, idx) ==
    IF tc.kind = "None" THEN GetReturned(data)
    ELSE IF tc.kind = "str" /\ tc.names[1] \notin Columns(extra)
        THEN GetRaised("ValueError")
    ELSE IF tc.kind = "iterable" /\ ~(Range(tc.names) \subseteq Columns(extra))
        THEN GetRaised("ValueError")
    ELSE IF tc.kind = "other" THEN GetRaised("ValueError")
    ELSE GetReturned([data EXCEPT
            !.has_target_condition = TRUE,
            !.target_condition = tc,
            !.has_y = TRUE,
            !.y = [t \in Range(tc.names) |-> RowValue(rows, idx, t)]])

\* lines 154-156: the feature part of get
AttachMaceFeatures(out, enabled, dict, rows, idx) ==
    IF out.status # "returned" \/ ~enabled THEN out
    ELSE IF rows[idx + 1].material_id \notin DOMAIN dict THEN GetRaised("KeyError")
    ELSE GetReturned([out.sample EXCEPT
            !.has_mace_features = TRUE,
            !.mace_features = dict[rows[idx + 1].material_id]])

NoTable == <<>>

DatasetIdle ==
    /\ df = NoTable
    /\ dfColumns = {}
    /\ target_condition = NoCondition
    /\ mace_features = FALSE
    /\ mace_features_dict = <<>>
    /\ pre_transform = "None"
    /\ dsPc = "idle"
    /\ rowIdx = 0
    /\ data_list = <<>>
    /\ processed = <<>>
    /\ getIdx = -1
    /\ getResult = NoGet

\* lines 45-53: the object when super().__init__ calls process()
ProcessEntered ==
    /\ dfColumns = {}
    /\ df \in Tables(Cifs, dfColumns)
    /\ target_condition = NoCondition
    /\ mace_features = FALSE
    /\ mace_features_dict = <<>>
    /\ pre_transform \in {"None", "f"}
    /\ dsPc = "process"
    /\ rowIdx = 0
    /\ data_list = <<>>
    /\ processed = <<>>
    /\ getIdx = -1
    /\ getResult = NoGet

\* line 91
ProcessBegin ==
    /\ dsPc = "process"
    /\ data_list' = <<>>
    /\ rowIdx' = 0
    /\ dsPc' = "rows"
    /\ UNCHANGED <<df, dfColumns, target_condition, mace_features,
                   mace_features_dict, pre_transform, processed, getIdx, getResult>>

\* lines 92-115: one turn of the loop over the rows
ProcessRow ==
    /\ dsPc = "rows"
    /\ rowIdx < Len(df)
    /\ IF Parses(df[rowIdx + 1].cif)
       THEN /\ data_list' = Append(data_list, RowGraph(df[rowIdx + 1]))
            /\ rowIdx' = rowIdx + 1
            /\ dsPc' = "rows"
       ELSE /\ dsPc' = "raised"
            /\ UNCHANGED <<data_list, rowIdx>>
    /\ UNCHANGED <<df, dfColumns, target_condition, mace_features,
                   mace_features_dict, pre_transform, processed, getIdx, getResult>>

\* lines 117-123: pre_transform, collate and save
ProcessSave ==
    /\ dsPc = "rows"
    /\ rowIdx = Len(df)
    /\ data_list' = ApplyPreTransform(pre_transform, data_list)
    /\ processed' = data_list'
    /\ dsPc' = "saved"
    /\ UNCHANGED <<df, dfColumns, target_condition, mace_features,
                   mace_features_dict, pre_transform, rowIdx, getIdx, getResult>>

\* lines 26-67: a constructed dataset whose rows all parsed
DatasetConstructed ==
    /\ dfColumns \in ColumnSets
    /\ df \in Tables({[cls |-> 1, rep |-> 1, orient |-> "other"]}, dfColumns)
    /\ target_condition \in TargetConditions
    /\ mace_features \in BOOLEAN
    /\ \E f \in FeatureFiles :
         mace_features_dict = IF mace_features THEN LoadMaceFeatures(df, f) ELSE <<>>
    /\ pre_transform = "None"
    /\ dsPc = "ready"
    /\ rowIdx = Len(df)
    /\ data_list = <<>>
    /\ processed = [i \in DOMAIN df |-> RowGraph(df[i])]
    /\ getIdx = -1
    /\ getResult = NoGet

\* lines 125-157
Get(idx) ==
    /\ dsPc = "ready"
    /\ getIdx' = idx
    /\ getResult' =
        AttachMaceFeatures(
            AttachCondition([NoSample EXCEPT !.graph = processed[idx + 1]],
                            target_condition, df, dfColumns, idx),
            mace_features, mace_features_dict, df, idx)
    /\ UNCHANGED <<df, dfColumns, target_condition, mace_features,
                   mace_features_dict, pre_transform, dsPc, rowIdx, data_list,
                   processed>>

(***************************************************************************)
(* The MACE feature writer (src/utils/mace_embedd.py)                      *)
(***************************************************************************)
MaxSeen == 4    \* most rows one evaluate call reads, over all its splits

\* the splits argument: the default and some others
SplitArgs == {<<"train", "val", "test">>, <<"train">>, <<"val", "train">>, <<>>}

\* the cif column: a string that does not parse and two crystals
MaceCifs == {BadCif, [cls |-> 1, rep |-> 0, orient |-> "std"],
                     [cls |-> 2, rep |-> 0, orient |-> "std"]}

\* lines 130-132: the descriptor array of a parsed structure
GetDescriptors(structure) == [descriptors_of |-> structure]

\* lines 134-141: the file after a row with this key and descriptor
StoreDescriptorBroken(f, key, data) ==
    [k \in DOMAIN f \cup {key} |-> IF k = key THEN data ELSE f[k]]
StoreDescriptor(f, key, data) ==
    IF key \in DOMAIN f
    THEN f
    ELSE [k \in DOMAIN f \cup {key} |-> IF k = key THEN data ELSE f[k]]

MaceIdle ==
    /\ macePc = "idle"
    /\ maceSplits = <<>>
    /\ splitIdx = 0
    /\ idDtype = "none"
    /\ h5_file = <<>>
    /\ seen = <<>>
    /\ maceError = "none"

\* lines 81-90: a call of evaluate with some splits argument
MaceCalled ==
    /\ macePc = "start"
    /\ maceSplits \in SplitArgs
    /\ splitIdx = 0
    /\ idDtype = "none"
    /\ h5_file = <<>>
    /\ seen = <<>>
    /\ maceError = "none"

\* lines 91-117: the paths are checked, the model is loaded and the output
\* file is opened with mode "w"
MaceBegin(paths_exist) ==
    /\ macePc = "start"
    /\ IF paths_exist
       THEN macePc' = "split" /\ maceError' = "none"
       ELSE macePc' = "raised" /\ maceError' = "FileNotFoundError"
    /\ h5_file' = <<>>
    /\ UNCHANGED <<maceSplits, splitIdx, idDtype, seen>>

\* lines 118-122: the next split's table is read
MaceOpenSplit(csv_exists, dtype) ==
    /\ macePc = "split"
    /\ splitIdx < Len(maceSplits)
    /\ IF csv_exists
       THEN macePc' = "rows" /\ idDtype' = dtype /\ maceError' = "none"
       ELSE macePc' = "raised" /\ idDtype' = "none"
            /\ maceError' = "FileNotFoundError"
    /\ UNCHANGED <<maceSplits, splitIdx, h5_file, seen>>

\* lines 128-141: one row of the table
MaceRow(material_id, cif) ==
    /\ macePc = "rows"
    /\ Len(seen) < MaxSeen
    /\ material_id.t = idDtype
    /\ IF Parses(cif)
       THEN /\ h5_file' = StoreDescriptor(h5_file, Str(material_id),
                                          GetDescriptors(cif))
            /\ seen' = Append(seen, [material_id |-> material_id, cif |-> cif,
                                     split |-> maceSplits[splitIdx + 1]])
            /\ UNCHANGED <<macePc, maceError>>
       ELSE /\ macePc' = "raised"
            /\ maceError' = "ParseError"
            /\ UNCHANGED <<h5_file, seen>>
    /\ UNCHANGED <<maceSplits, splitIdx, idDtype>>

\* line 128: the table has no more rows
MaceSplitEnd ==
    /\ macePc = "rows"
    /\ splitIdx' = splitIdx + 1
    /\ macePc' = "split"
    /\ idDtype' = "none"
    /\ UNCHANGED <<maceSplits, h5_file, seen, maceError>>

\* lines 143-144: every split is done
MaceReturn ==
    /\ macePc = "split"
    /\ splitIdx = Len(maceSplits)
    /\ macePc' = "returned"
    /\ UNCHANGED <<maceSplits, splitIdx, idDtype, h5_file, seen, maceError>>

(***************************************************************************)
(* The EMA callback (src/utils/ema_callback.py) over torch_ema             *)
(***************************************************************************)
MaxUpdates == 2    \* most training batches over the runs
NumParams  == 2    \* parameters of the module

\* decay: float = 0.999
DefaultDecay == [num |-> 999, den |-> 1000]

\* parameter values a training step may leave: multiples of 11*12*13*14, which
\* keeps the warm-up averages of the first four updates whole numbers
ParamUnit == 24024
ParamValues == {0, ParamUnit}
ParamVectors == [1..NumParams -> ParamValues]

\* self.ema = None, and an ExponentialMovingAverage without stored weights
NoEma == [decay |-> DefaultDecay, num_updates |-> -1, shadow_params |-> <<>>,
          collected_params |-> <<>>, params_ref |-> "none"]
NoCollected == <<>>

\* ExponentialMovingAverage(pl_module.parameters(), decay=self.decay)
EmaNew(ps, decay) ==
    [decay |-> decay, num_updates |-> 0, shadow_params |-> ps,
     collected_params |-> NoCollected, params_ref |-> "pl_module"]

\* min(decay, (1 + num_updates) / (10 + num_updates))
WarmupDecay(decay, n) ==
    IF (1 + n) * decay.den <= decay.num * (10 + n)
    THEN [num |-> 1 + n, den |-> 10 + n]
    ELSE decay

\* self.ema.update(pl_module.parameters()): s -= (1 - decay) * (s - p)
EmaUpdate(e, ps) ==
    LET n == e.num_updates + 1
        decay == WarmupDecay(e.decay, n)
    IN  [e EXCEPT
            !.num_updates = n,
            !.shadow_params = [i \in DOMAIN e.shadow_params |->
                e.shadow_params[i]
                    - ((decay.den - decay.num) * (e.shadow_params[i] - ps[i]))
                        \div decay.den]]

\* self.ema.store(): the parameters the object was built on are cloned
EmaStore(e, ps) == [e EXCEPT !.collected_params = ps]

\* self.ema.copy_to(pl_module.parameters()): the parameters afterwards
EmaCopyTo(e, ps) == e.shadow_params

\* self.ema.restore(): the parameters afterwards
EmaRestore(e, ps) == e.collected_params

\* self.ema.state_dict()
EmaStateDict(e) ==
    [decay |-> e.decay, num_updates |-> e.num_updates,
     shadow_params |-> e.shadow_params, collected_params |-> e.collected_params]

\* self.ema.load_state_dict(ckpt["ema_state"])
EmaLoadStateDict(e, sd) ==
    [e EXCEPT !.decay = sd.decay, !.num_updates = sd.num_updates,
              !.shadow_params = sd.shadow_params,
              !.collected_params = sd.collected_params]

\* lines 21-23: store, then copy_to
ValidationStartBroken(e, ps) ==
    [ema |-> EmaStore(e, EmaCopyTo(e, ps)), params |-> EmaCopyTo(e, ps)]
ValidationStart(e, ps) ==
    [ema |-> EmaStore(e, ps), params |-> EmaCopyTo(EmaStore(e, ps), ps)]

NoCkpt == [saved |-> FALSE, ema_state |-> EmaStateDict(NoEma), state_dict |-> <<>>]
NoSnapshot == [taken |-> FALSE, params |-> <<>>, shadow_params |-> <<>>]

EmaIdle ==
    /\ ema = NoEma
    /\ params = <<>>
    /\ ckpt = NoCkpt
    /\ emaPc = "idle"
    /\ emaSteps = 0
    /\ preVal = NoSnapshot

\* lines 10-13: the callback of a first run, and the module it will see
EmaConstructed ==
    /\ ema = NoEma
    /\ params \in ParamVectors
    /\ ckpt = NoCkpt
    /\ emaPc = "new"
    /\ emaSteps = 0
    /\ preVal = NoSnapshot

\* lines 15-16
OnFitStart ==
    /\ emaPc \in {"new", "loaded"}
    /\ ema' = EmaNew(params, DefaultDecay)
    /\ emaPc' = "fit"
    /\ preVal' = NoSnapshot
    /\ UNCHANGED <<params, ckpt, emaSteps>>

\* lines 18-19, after the optimizer step that left new_params in the module
OnTrainBatchEnd(new_params) ==
    /\ emaPc = "fit"
    /\ emaSteps < MaxUpdates
    /\ params' = new_params
    /\ ema' = EmaUpdate(ema, new_params)
    /\ emaSteps' = emaSteps + 1
    /\ preVal' = NoSnapshot
    /\ UNCHANGED <<ckpt, emaPc>>

\* lines 21-23
OnValidationStart ==
    /\ emaPc = "fit"
    /\ preVal' = [taken |-> TRUE, params |-> params,
                  shadow_params |-> ema.shadow_params]
    /\ ema' = ValidationStart(ema, params).ema
    /\ params' = ValidationStart(ema, params).params
    /\ emaPc' = "validating"
    /\ UNCHANGED <<ckpt, emaSteps>>

\* lines 25-26
OnValidationEnd ==
    /\ emaPc = "validating"
    /\ params' = EmaRestore(ema, params)
    /\ emaPc' = "fit"
    /\ UNCHANGED <<ema, ckpt, emaSteps, preVal>>

\* lines 28-29, in the checkpoint that also holds the module's weights
OnSaveCheckpoint ==
    /\ emaPc = "fit"
    /\ ckpt' = [saved |-> TRUE, ema_state |-> EmaStateDict(ema),
                state_dict |-> params]
    /\ UNCHANGED <<ema, params, emaPc, emaSteps, preVal>>

\* lines 10-13 in a resumed run: a new callback, and the module's weights
\* loaded from the checkpoint
ResumeRun ==
    /\ emaPc = "fit"
    /\ ckpt.saved
    /\ ema' = NoEma
    /\ params' = ckpt.state_dict
    /\ emaPc' = "resumed"
    /\ preVal' = NoSnapshot
    /\ UNCHANGED <<ckpt, emaSteps>>

\* lines 31-33
OnLoadCheckpoint ==
    /\ emaPc = "resumed"
    /\ ema' = EmaLoadStateDict(EmaNew(params, DefaultDecay), ckpt.ema_state)
    /\ emaPc' = "loaded"
    /\ UNCHANGED <<params, ckpt, emaSteps, preVal>>

(***************************************************************************)
(* Specifications                                                          *)
(***************************************************************************)
RewardIdle ==
    /\ components = <<>>
    /\ normalize_fn = "None"
    /\ metrics = None
    /\ rwPc = "idle"
    /\ rwB = 0
    /\ total_rewards = <<>>
    /\ compOuts = <<>>
    /\ fwd = NoOutcome
    /\ nrm = NoOutcome
    /\ callLog = <<>>

CkIdle ==
    /\ config = [has_retry_attempts |-> FALSE, retry_attempts |-> 0]
    /\ cache = [n \in CkptNames |-> Absent]
    /\ ckPc = "idle"
    /\ ckName = "none"
    /\ attempt = 0
    /\ last_error = NoError
    /\ ckResult = NoPath
    /\ ckError = [kind |-> "None", cause |-> NoError]
    /\ fetchCalls = 0
    /\ downloads = 0
    /\ sleeps = 0
    /\ lastAttemptOk = FALSE
    /\ entryContent = Absent
    /\ resolved = {}

BatchIdle == BatchConstructed

EvIdle == EvConstructed

InitReward == RewardConstructed /\ CkIdle /\ BatchIdle /\ EvIdle /\ DatasetIdle /\ MaceIdle /\ EmaIdle

NextReward ==
    \/ \E B \in 0..MaxBatch : ForwardBegin(B) /\ UNCHANGED <<ckVars, batchVars, evVars, dsVars, maceVars, emaVars>>
    \/ \E out \in Vectors(rwB) : ForwardComponent(out) /\ UNCHANGED <<ckVars, batchVars, evVars, dsVars, maceVars, emaVars>>
    \/ ForwardEnd /\ UNCHANGED <<ckVars, batchVars, evVars, dsVars, maceVars, emaVars>>
    \/ NormalizeCall /\ UNCHANGED <<ckVars, batchVars, evVars, dsVars, maceVars, emaVars>>

SpecReward == InitReward /\ [][NextReward]_vars

InitCheckpoint == CkConstructed /\ RewardIdle /\ BatchIdle /\ EvIdle /\ DatasetIdle /\ MaceIdle /\ EmaIdle

NextCheckpoint ==
    \/ \E name \in CallNames : GetCheckpointBegin(name) /\ UNCHANGED <<rewardVars, batchVars, evVars, dsVars, maceVars, emaVars>>
    \/ GetCheckpointLoop /\ UNCHANGED <<rewardVars, batchVars, evVars, dsVars, maceVars, emaVars>>
    \/ GetCheckpointAttempt /\ UNCHANGED <<rewardVars, batchVars, evVars, dsVars, maceVars, emaVars>>
    \/ GetCheckpointExcept /\ UNCHANGED <<rewardVars, batchVars, evVars, dsVars, maceVars, emaVars>>

SpecCheckpoint == InitCheckpoint /\ [][NextCheckpoint]_vars

InitBatch == BatchConstructed /\ RewardIdle /\ CkIdle /\ EvIdle /\ DatasetIdle /\ MaceIdle /\ EmaIdle

NextBatch ==
    \E batch_size \in 1..MaxBatchSize :
        DummyCrystalBatch(batch_size) /\ UNCHANGED <<rewardVars, ckVars, evVars, dsVars, maceVars, emaVars>>

SpecBatch == InitBatch /\ [][NextBatch]_vars

InitEvaluate == EvConstructed /\ RewardIdle /\ CkIdle /\ BatchIdle /\ DatasetIdle /\ MaceIdle /\ EmaIdle

NextEvaluate ==
    \/ /\ evPc = "idle"
       /\ \E n \in 0..MaxStructures : \E contents \in [1..n -> JsonContents] :
            EvaluateLoadJson(contents) /\ UNCHANGED <<rewardVars, ckVars, batchVars, dsVars, maceVars, emaVars>>
    \/ /\ evPc = "idle"
       /\ \E n \in 0..MaxStructures : \E files \in [1..n -> DirContents] :
            EvaluateLoadDir(files) /\ UNCHANGED <<rewardVars, ckVars, batchVars, dsVars, maceVars, emaVars>>
    \/ EvaluateCompute /\ UNCHANGED <<rewardVars, ckVars, batchVars, dsVars, maceVars, emaVars>>
    \/ EvaluateToCsv /\ UNCHANGED <<rewardVars, ckVars, batchVars, dsVars, maceVars, emaVars>>

SpecEvaluate == InitEvaluate /\ [][NextEvaluate]_vars

InitProcess == ProcessEntered /\ RewardIdle /\ CkIdle /\ BatchIdle /\ EvIdle /\ MaceIdle /\ EmaIdle

NextProcess ==
    \/ ProcessBegin /\ UNCHANGED <<rewardVars, ckVars, batchVars, evVars, maceVars, emaVars>>
    \/ ProcessRow /\ UNCHANGED <<rewardVars, ckVars, batchVars, evVars, maceVars, emaVars>>
    \/ ProcessSave /\ UNCHANGED <<rewardVars, ckVars, batchVars, evVars, maceVars, emaVars>>

SpecProcess == InitProcess /\ [][NextProcess]_vars

InitGet == DatasetConstructed /\ RewardIdle /\ CkIdle /\ BatchIdle /\ EvIdle /\ MaceIdle /\ EmaIdle

NextGet ==
    \E idx \in 0..(Len(df) - 1) :
        Get(idx) /\ UNCHANGED <<rewardVars, ckVars, batchVars, evVars, maceVars, emaVars>>

SpecGet == InitGet /\ [][NextGet]_vars

InitMace == MaceCalled /\ RewardIdle /\ CkIdle /\ BatchIdle /\ EvIdle /\ DatasetIdle /\ EmaIdle

NextMace ==
    \/ \E paths_exist \in BOOLEAN :
        MaceBegin(paths_exist) /\ UNCHANGED <<rewardVars, ckVars, batchVars, evVars, dsVars, emaVars>>
    \/ \E csv_exists \in BOOLEAN, dtype \in {"int", "str"} :
        MaceOpenSplit(csv_exists, dtype) /\ UNCHANGED <<rewardVars, ckVars, batchVars, evVars, dsVars, emaVars>>
    \/ \E material_id \in MaterialIds, cif \in MaceCifs :
        MaceRow(material_id, cif) /\ UNCHANGED <<rewardVars, ckVars, batchVars, evVars, dsVars, emaVars>>
    \/ MaceSplitEnd /\ UNCHANGED <<rewardVars, ckVars, batchVars, evVars, dsVars, emaVars>>
    \/ MaceReturn /\ UNCHANGED <<rewardVars, ckVars, batchVars, evVars, dsVars, emaVars>>

SpecMace == InitMace /\ [][NextMace]_vars

InitEma == EmaConstructed /\ RewardIdle /\ CkIdle /\ BatchIdle /\ EvIdle /\ DatasetIdle /\ MaceIdle

NextEma ==
    \/ OnFitStart /\ UNCHANGED <<rewardVars, ckVars, batchVars, evVars, dsVars, maceVars>>
    \/ /\ emaPc = "fit"
       /\ \E new_params \in ParamVectors : OnTrainBatchEnd(new_params) /\ UNCHANGED <<rewardVars, ckVars, batchVars, evVars, dsVars, maceVars>>
    \/ OnValidationStart /\ UNCHANGED <<rewardVars, ckVars, batchVars, evVars, dsVars, maceVars>>
    \/ OnValidationEnd /\ UNCHANGED <<rewardVars, ckVars, batchVars, evVars, dsVars, maceVars>>
    \/ OnSaveCheckpoint /\ UNCHANGED <<rewardVars, ckVars, batchVars, evVars, dsVars, maceVars>>
    \/ ResumeRun /\ UNCHANGED <<rewardVars, ckVars, batchVars, evVars, dsVars, maceVars>>
    \/ OnLoadCheckpoint /\ UNCHANGED <<rewardVars, ckVars, batchVars, evVars, dsVars, maceVars>>

SpecEma == InitEma /\ [][NextEma]_vars

\* every statement of get_checkpoint returns: a started call keeps running
FairSpecCheckpoint == SpecCheckpoint /\ WF_vars(NextCheckpoint)
(***************************************************************************)
(* Properties of the reward aggregator                                     *)
(***************************************************************************)
RECURSIVE SumOfComponents(_, _, _)
\* the sum over the first j recorded component outputs of their i-th reward
SumOfComponents(outs, j, i) ==
    IF j = 0 THEN Fin(0) ELSE FAdd(SumOfComponents(outs, j - 1, i), outs[j][i])

ForwardFinished == rwPc = "idle" /\ fwd.status # "none"

\* -1 <= x <= 1
InUnitInterval(x) == x.k = "fin" /\ -x.d <= x.n /\ x.n <= x.d

\* C1: forward never returns a tensor holding a NaN: when an element of the
\* elementwise sum of the component rewards is NaN the call raises and hands
\* no tensor to the caller; otherwise it returns.
C1_NaNSumRaises ==
    ForwardFinished =>
        /\ fwd.status = "returned" => \A i \in DOMAIN fwd.value : ~IsNaN(fwd.value[i])
        /\ IF \E i \in 1..rwB : IsNaN(SumOfComponents(compOuts, Len(compOuts), i))
           THEN fwd.status = "raised" /\ fwd.error = "ValueError" /\ fwd.value = <<>>
           ELSE fwd.status = "returned"

\* a call raised although no component returned a NaN (inf plus -inf)
C1_Witness ==
    /\ ForwardFinished
    /\ fwd.status = "raised"
    /\ rwB = 2
    /\ \A j \in DOMAIN compOuts : \A i \in 1..rwB : ~IsNaN(compOuts[j][i])
    /\ ~IsNaN(SumOfComponents(compOuts, Len(compOuts), 1))

\* C2: with normalize_fn = None the output for a batch of B samples has length
\* B and its i-th element is the sum of the components' i-th rewards ([1,1] and
\* [2,2] give [3,3]); with no component it is the zero vector of length B; and
\* normalize leaves it as it is.
C2_SumWithoutNormalization ==
    (ForwardFinished /\ fwd.status = "returned" /\ normalize_fn = "None") =>
        /\ Len(fwd.value) = rwB
        /\ \A i \in 1..rwB :
                fwd.value[i] = SumOfComponents(compOuts, Len(components), i)
        /\ components = <<>> => \A i \in 1..rwB : fwd.value[i] = Fin(0)
        /\ compOuts = << <<Fin(1), Fin(1)>>, <<Fin(2), Fin(2)>> >>
                => fwd.value = <<Fin(3), Fin(3)>>
        /\ nrm.status = "returned" => nrm.value = fwd.value

C2_Witness ==
    /\ ForwardFinished
    /\ normalize_fn = "None"
    /\ compOuts = << <<Fin(1), Fin(1)>>, <<Fin(2), Fin(2)>> >>
    /\ fwd = Returned(<<Fin(3), Fin(3)>>)
    /\ nrm = Returned(<<Fin(3), Fin(3)>>)

\* C3 as stated: with normalize_fn = clip every element of the tensor the
\* aggregator (forward) returns lies in [-1, 1].
C3_ForwardOutputClipped ==
    (ForwardFinished /\ fwd.status = "returned" /\ normalize_fn = "clip") =>
        \A i \in 1..rwB : InUnitInterval(fwd.value[i])

\* C3 amended: forward returns the plain sum whatever normalize_fn is; the
\* policy acts when that tensor is passed to normalize. With clip, [1,1] and
\* [2,2] give forward [3,3] and normalize [1,1]; every element of normalize's
\* output lies in [-1, 1], is 1 above 1, -1 below -1 and the sum in between.
C3_NormalizeClipsForwardOutput ==
    /\ (ForwardFinished /\ fwd.status = "returned") =>
            \A i \in 1..rwB :
                fwd.value[i] = SumOfComponents(compOuts, Len(components), i)
    /\ (nrm.status # "none" /\ normalize_fn = "clip") =>
        /\ nrm.status = "returned"
        /\ Len(nrm.value) = rwB
        /\ \A i \in 1..rwB :
            LET x == fwd.value[i]
                y == nrm.value[i]
            IN  /\ InUnitInterval(y)
                /\ InUnitInterval(x) => y = x
                /\ (x.k = "inf" /\ x.n = 1) \/ (x.k = "fin" /\ x.n > x.d) => y = Fin(1)
                /\ (x.k = "inf" /\ x.n = -1) \/ (x.k = "fin" /\ x.n < -x.d) => y = Fin(-1)
        /\ compOuts = << <<Fin(1), Fin(1)>>, <<Fin(2), Fin(2)>> >>
                => fwd.value = <<Fin(3), Fin(3)>> /\ nrm.value = <<Fin(1), Fin(1)>>

C3_Witness ==
    /\ normalize_fn = "clip"
    /\ compOuts = << <<Fin(1), Fin(1)>>, <<Fin(2), Fin(2)>> >>
    /\ fwd = Returned(<<Fin(3), Fin(3)>>)
    /\ nrm = Returned(<<Fin(1), Fin(1)>>)

\* C4: an unrecognized normalization name is rejected at construction: no
\* ReinforceReward whose normalize_fn is unrecognized exists and computes
\* rewards.
C4_UnknownNameNeverComputes ==
    (ForwardFinished /\ fwd.status = "returned") => normalize_fn \in NormalizeNames

(***************************************************************************)
(* Properties of the checkpoint resolver                                   *)
(***************************************************************************)
\* C5: a path is returned only for a file whose digest, computed in the
\* returning attempt, equals the manifest's sha256 for the name.
C5_ReturnedDigestMatches ==
    ckPc = "returned" =>
        /\ ckName \in CkptNames
        /\ cache[ckName] # Absent
        /\ Sha256(cache[ckName]) = Manifest[ckName].sha256
        /\ ckResult = CachePath(Manifest[ckName].hf_path)

\* returned after an earlier attempt of the same call had failed
C5_Witness ==
    /\ ckPc = "returned"
    /\ fetchCalls >= 2
    /\ downloads = 1

StaleAtEntry ==
    /\ ckName \in CkptNames
    /\ entryContent # Absent
    /\ Sha256(entryContent) # Manifest[ckName].sha256

\* C6: a call that finds a cached file whose digest differs from the manifest
\* downloads the file again, replacing the stale copy, before it ends (in a
\* return or, with every re-fetch failing, in an error).
C6_StaleCacheIsRefetched ==
    (CkDone /\ StaleAtEntry /\ RetryAttempts > 0) => downloads >= 1

\* C7: at most retry_attempts fetch attempts, and a started call ends; when it
\* ends with every attempt failed it made exactly retry_attempts attempts and
\* raises one RuntimeError whose cause is the exception of the last attempt.
C7_BoundedRetriesLastCause ==
    /\ [](fetchCalls <= RetryAttempts /\ attempt <= RetryAttempts)
    /\ []((ckPc = "raised" /\ ckName \in CkptNames) =>
            /\ ckError.kind = "RuntimeError"
            /\ fetchCalls = RetryAttempts
            /\ RetryAttempts > 0 =>
                /\ ckError.cause.attempt = RetryAttempts - 1
                /\ ckError.cause.kind \in {"FetchError", "ValueError"})
    /\ (ckPc \in {"loop", "try", "except"}) ~> CkDone

\* three attempts by default, the last a checksum mismatch after fetch errors
C7_Witness ==
    /\ ckPc = "raised"
    /\ ~config.has_retry_attempts
    /\ fetchCalls = 3
    /\ ckError = [kind |-> "RuntimeError", cause |-> ErrorAt("ValueError", 2)]

\* C8: an attempt that fetched a file with the manifest's digest returns the
\* path of that fetch at once: one fetch per attempt so far, no delay after it,
\* a single fetch when it was the first attempt, and nothing more happens in
\* the call.
C8_SuccessReturnsAtOnce ==
    /\ [](lastAttemptOk =>
            /\ ckPc = "returned"
            /\ ckResult = CachePath(Manifest[ckName].hf_path)
            /\ fetchCalls = attempt + 1
            /\ sleeps = attempt
            /\ attempt = 0 => fetchCalls = 1)
    /\ [][ckPc = "returned" => (ckPc' \in {"loop", "raised"} /\ fetchCalls' = 0
                                /\ sleeps' = 0)]_vars

C8_Witness ==
    /\ lastAttemptOk
    /\ ckPc = "returned"
    /\ attempt = 0
    /\ fetchCalls = 1
    /\ downloads = 1

ResolvedBefore(name) == \E p \in {CachePath(Manifest[n].hf_path) : n \in CkptNames} :
                            <<name, p>> \in resolved

\* C9: once a call has returned a path for a name, a later call with that name
\* returns the same path and leaves the cached file as it found it.
C9_Idempotent ==
    (CkDone /\ ResolvedBefore(ckName)) =>
        /\ ckPc = "returned"
        /\ <<ckName, ckResult>> \in resolved
        /\ cache[ckName] = entryContent

C9_Witness ==
    /\ ckPc = "returned"
    /\ <<ckName, ckResult>> \in resolved
    /\ Cardinality(resolved) = 2

(***************************************************************************)
(* Properties of empty batches                                             *)
(***************************************************************************)
RECURSIVE SumUpTo(_, _)
SumUpTo(counts, g) == IF g = 0 THEN 0 ELSE SumUpTo(counts, g - 1) + counts[g]

CountOf(field, g) == Cardinality({a \in DOMAIN field : field[a] = g})

\* C11: in a batch of B > 0 structures the per-atom batch field is
\* non-decreasing, has minimum 0 and maximum B - 1, and holds each structure
\* index i of 0..B-1 exactly num_atoms[i] times (so at least once).
C11_BatchFieldCoversStructures ==
    batch # NoBatch =>
        LET B == batchSizeArg
            f == batch.batch
        IN  /\ B > 0
            /\ Len(f) > 0
            /\ \A a \in 1..(Len(f) - 1) : f[a] <= f[a + 1]
            /\ \A a \in DOMAIN f : f[a] >= 0 /\ f[a] <= B - 1
            /\ \E a \in DOMAIN f : f[a] = 0
            /\ \E a \in DOMAIN f : f[a] = B - 1
            /\ Len(batch.num_atoms) = B
            /\ \A g \in 1..Len(batch.num_atoms) :
                    /\ CountOf(f, g - 1) = batch.num_atoms[g]
                    /\ CountOf(f, g - 1) >= 1

C11_Witness ==
    /\ batch # NoBatch
    /\ numAtomsArg = <<1, 3, 2>>
    /\ batch.batch = <<0, 1, 1, 1, 2, 2>>

(***************************************************************************)
(* Properties of the metrics engine and the evaluation script              *)
(***************************************************************************)
\* five structures matching each other and one matching none of them
FivePlusOne(structs) ==
    /\ Len(structs) = 6
    /\ \E odd \in 1..6 :
        /\ \A i \in 1..6 : i # odd => ~Match(structs[i], structs[odd])
        /\ \A i, j \in 1..6 : (i # odd /\ j # odd) => Match(structs[i], structs[j])

\* C12: uniqueness clusters by first match in input order: a structure joins
\* the cluster of the first earlier structure it matches, else starts a
\* cluster; five mutually matching structures and one matching none give 2
\* clusters in every input order.
C12_FirstMatchClustering ==
    evRecord # NoRecord =>
        LET valid == ValidOnly(gen_structures)
            c == evRecord.cluster_of
        IN  /\ Len(c) = Len(valid)
            /\ \A i \in DOMAIN c :
                LET matching == {j \in 1..(i - 1) : Match(valid[j], valid[i])}
                IN  IF matching = {}
                    THEN c[i] = i
                    ELSE \E j \in matching :
                            /\ \A k \in matching : j <= k
                            /\ c[i] = c[j]
            /\ evRecord.n_unique = Cardinality({c[i] : i \in DOMAIN c})
            /\ FivePlusOne(valid) => evRecord.n_unique = 2

C12_Witness ==
    /\ evPc = "done"
    /\ gen_structures = <<"T1", "T1", "T3", "T1", "T1", "T1">>
    /\ evRecord.cluster_of = <<1, 1, 3, 1, 1, 1>>
    /\ evRecord.n_unique = 2

\* C13: a structure that fails to parse or has NaN geometry never aborts the
\* metrics computation: the run over the whole set completes, the record
\* counts every such structure as invalid and leaves it out of the
\* denominators.
C13_InvalidStructuresAreTallied ==
    evPc \in {"done", "raised"} =>
        /\ evPc = "done"
        /\ evRecord.n_structures = Len(evInput)
        /\ evRecord.invalid_count =
                Cardinality({i \in DOMAIN evInput : ~IsValidStructure(evInput[i])})
        /\ evRecord.n_valid = evRecord.n_structures - evRecord.invalid_count

\* C15: in one forward call the shared Metrics object, when a component
\* declares required metrics, is computed exactly once and before any
\* component is called; the components are then called once each in list
\* order with that same object. Without declared metrics there is no Metrics
\* object and nothing is computed.
C15_MetricsOnceThenComponentsInOrder ==
    /\ (metrics.kind = "Metrics") <=>
            (\E j \in DOMAIN components : components[j].required_metrics # {})
    /\ Len(callLog) = Len(compOuts)
    /\ Len(callLog) <= Len(components)
    /\ \A j \in DOMAIN callLog :
        /\ callLog[j].component = j
        /\ callLog[j].metrics_obj = metrics
        /\ callLog[j].metrics_obj.computes
                = (IF metrics.kind = "Metrics" THEN 1 ELSE 0)
    /\ rwPc = "components" => metrics.computes = (IF metrics.kind = "Metrics" THEN 1 ELSE 0)
    /\ ForwardFinished =>
        /\ Len(callLog) = Len(components)
        /\ metrics.computes = (IF metrics.kind = "Metrics" THEN 1 ELSE 0)
    /\ metrics.kind = "None" => metrics = None

\* a second forward call finished: two components, the second declares metrics
C15_Witness ==
    /\ ForwardFinished
    /\ Len(components) = 2
    /\ components[1].required_metrics = {}
    /\ components[2].required_metrics # {}
    /\ callLog = << [component |-> 1, metrics_obj |-> metrics],
                    [component |-> 2, metrics_obj |-> metrics] >>
    /\ metrics.computes = 1

\* C16: get_checkpoint delays after a failed attempt exactly when another
\* attempt follows: one delay before every attempt but the first, none after
\* the last failed attempt, retry_attempts - 1 delays when all attempts fail.
C16_DelayOnlyBetweenAttempts ==
    /\ [](ckPc = "try" => sleeps = attempt /\ fetchCalls = attempt)
    /\ [](ckPc = "returned" => sleeps = fetchCalls - 1)
    /\ []((ckPc = "raised" /\ ckError.kind = "RuntimeError") =>
            sleeps = (IF RetryAttempts = 0 THEN 0 ELSE RetryAttempts - 1))
    /\ [][(sleeps' = sleeps + 1) <=>
            (ckPc = "except" /\ attempt + 1 < RetryAttempts)]_vars
    /\ [][(ckPc = "except" /\ sleeps' = sleeps + 1) => ckPc' = "loop"]_vars
    /\ [][(ckPc = "loop" /\ ckPc' = "raised") => sleeps' = sleeps]_vars

\* default retry_attempts, all three attempts failed, two delays
C16_Witness ==
    /\ ckPc = "raised"
    /\ ~config.has_retry_attempts
    /\ fetchCalls = 3
    /\ sleeps = 2

(***************************************************************************)
(* Properties of the MP dataset                                            *)
(***************************************************************************)
\* the Niggli cell of the crystal a cif describes, in standard orientation
NiggliCellOf(cif) == [cls |-> cif.cls, rep |-> 0, orient |-> "std"]

\* C14: process encodes every row from its Niggli-reduced structure: the
\* graphs are one per row taken so far, in row order, each built from the
\* reduced structure of its row and carrying its material_id, and the saved
\* file holds one graph for every row of the table; a row is never skipped.
C14_EveryRowReducedBeforeEncoding ==
    /\ dsPc \in {"rows", "raised", "saved"} =>
        /\ Len(data_list) = rowIdx
        /\ \A i \in DOMAIN data_list :
            /\ data_list[i].structure = NiggliCellOf(df[i].cif)
            /\ data_list[i].material_id = df[i].material_id
    /\ dsPc = "saved" =>
        /\ Len(processed) = Len(df)
        /\ \A i \in DOMAIN processed :
            /\ processed[i].structure = NiggliCellOf(df[i].cif)
            /\ processed[i].material_id = df[i].material_id
    /\ dsPc # "saved" => processed = <<>>
    /\ dsPc = "raised" => rowIdx < Len(df) /\ ~Parses(df[rowIdx + 1].cif)

\* two rows given in cells that are not the Niggli cell were saved
C14_Witness ==
    /\ dsPc = "saved"
    /\ Len(df) = 2
    /\ df[1].cif.rep = 1 /\ df[2].cif.rep = 1
    /\ df[1].cif.cls # df[2].cif.cls
    /\ df[1].material_id # df[2].material_id
    /\ Len(processed) = 2

GetFinished == dsPc = "ready" /\ getResult.status # "none"

RequestedNames == Range(target_condition.names)

\* C17: get only attaches side-channel data: the structure fields of the
\* returned sample are those of the stored graph idx and the stored graphs
\* stay as they are; without target_condition there is no y; with one name
\* or a collection of names y maps exactly the requested names to the values
\* of row idx; a requested name that is not a column raises ValueError and no
\* sample is returned.
C17_GetOnlyAttachesSideData ==
    GetFinished =>
        /\ processed = [i \in DOMAIN df |-> RowGraph(df[i])]
        /\ getResult.status = "returned" =>
            /\ getResult.sample.graph = processed[getIdx + 1]
            /\ target_condition.kind = "None" =>
                    ~getResult.sample.has_y /\ getResult.sample.y = <<>>
            /\ target_condition.kind \in {"str", "iterable"} =>
                /\ getResult.sample.has_y
                /\ DOMAIN getResult.sample.y = RequestedNames
                /\ \A t \in RequestedNames :
                        getResult.sample.y[t] = df[getIdx + 1].props[t]
        /\ (/\ target_condition.kind \in {"str", "iterable"}
            /\ ~(RequestedNames \subseteq Columns(dfColumns))) =>
                /\ getResult.status = "raised"
                /\ getResult.error = "ValueError"
                /\ getResult.sample = NoSample

\* the second row's two requested values, which differ from the first row's
C17_Witness ==
    /\ GetFinished
    /\ getResult.status = "returned"
    /\ getIdx = 1
    /\ target_condition.kind = "iterable"
    /\ DOMAIN getResult.sample.y = {"band_gap", "e_hull"}
    /\ \A t \in RequestedNames : df[1].props[t] # df[2].props[t]

\* the target_condition part of get does not raise for this object
ConditionAccepted ==
    \/ target_condition.kind = "None"
    \/ /\ target_condition.kind \in {"str", "iterable"}
       /\ RequestedNames \subseteq Columns(dfColumns)

\* C21: with mace_features enabled get(idx) succeeds for every idx of the
\* split and attaches the stored feature vector of row idx's material_id: an
\* id the feature file has no entry for does not make get fail.
C21_GetSucceedsWithoutFeatureEntry ==
    (GetFinished /\ mace_features /\ ConditionAccepted) =>
        /\ getResult.status = "returned"
        /\ getResult.sample.has_mace_features
        /\ df[getIdx + 1].material_id \in DOMAIN mace_features_dict =>
            getResult.sample.mace_features
                = mace_features_dict[df[getIdx + 1].material_id]

(***************************************************************************)
(* Properties of the MACE feature writer                                   *)
(***************************************************************************)
\* the rows read so far whose material_id is written as this key
RowsWithKey(k) == {i \in DOMAIN seen : Str(seen[i].material_id) = k}

FirstRowWithKey(k) == CHOOSE i \in RowsWithKey(k) : \A j \in RowsWithKey(k) : i <= j

\* C18: the feature file holds one entry for each material_id read so far,
\* over all splits in the given order, and the entry is the descriptor of the
\* first row with that id: a later row with the same id never overwrites it.
C18_FirstOccurrenceWins ==
    /\ [](DOMAIN h5_file = {Str(seen[i].material_id) : i \in DOMAIN seen})
    /\ [](\A k \in DOMAIN h5_file :
            h5_file[k] = GetDescriptors(seen[FirstRowWithKey(k)].cif))
    /\ [][\A k \in DOMAIN h5_file : k \in DOMAIN h5_file' /\ h5_file'[k] = h5_file[k]]_vars

\* the id 7 of one split comes back as "7" in a later split with another cif
C18_Witness ==
    /\ macePc = "returned"
    /\ Len(seen) >= 2
    /\ \E i, j \in DOMAIN seen :
        /\ i < j
        /\ seen[i].split # seen[j].split
        /\ seen[i].material_id # seen[j].material_id
        /\ Str(seen[i].material_id) = Str(seen[j].material_id)
        /\ seen[i].cif # seen[j].cif
        /\ RowsWithKey(Str(seen[i].material_id)) = {i, j}

(***************************************************************************)
(* Properties of the EMA callback                                          *)
(***************************************************************************)
\* C19: the validation swap is a round trip: between on_validation_start and
\* on_validation_end the module's parameters are the EMA shadow values; after
\* on_validation_end they are what they were just before on_validation_start;
\* and the shadow values are the same before, between and after.
C19_ValidationSwapRoundTrip ==
    /\ emaPc = "validating" =>
        /\ preVal.taken
        /\ params = ema.shadow_params
        /\ ema.shadow_params = preVal.shadow_params
    /\ (emaPc = "fit" /\ preVal.taken) =>
        /\ params = preVal.params
        /\ ema.shadow_params = preVal.shadow_params

\* a validation finished after updates that left the shadow values away from
\* the parameters
C19_Witness ==
    /\ emaPc = "fit"
    /\ preVal.taken
    /\ ema.num_updates = 2
    /\ \A i \in 1..NumParams : ema.shadow_params[i] # params[i]
    /\ params[1] # params[2]

\* C20: the EMA state restored by on_load_checkpoint survives on_fit_start:
\* after it the shadow values are those saved in the checkpoint.
C20_RestoredShadowSurvivesFitStart ==
    [][(emaPc = "loaded" /\ emaPc' = "fit") =>
            ema'.shadow_params = ckpt.ema_state.shadow_params]_vars

====
